---- MODULE Spec2Model ----
(***************************************************************************)
(* Verification model of anvaya: the grapheme segmenters, the BPE trainer  *)
(* (src/tokenizer/train.py) and the BPE tokenizer (src/tokenizer/main.py). *)
(*                                                                         *)
(* A Python str is a sequence of code points (integers, so that Python's   *)
(* string order is the lexicographic order of the sequences); a list or a  *)
(* tuple of symbols is a sequence of such sequences.                        *)
(***************************************************************************)
EXTENDS Integers, Sequences, FiniteSets, TLC

VARIABLES
    \* train_bpe
    lines, regex_gb9c, target_vocab, min_freq, max_merges, special_tokens,
    vocab, token_set, merges, merge_count, train_pc, stop, model,
    \* the segmenters applied to one string
    seg_in, seg_out,
    \* a BPETokenizerProd instance, the model file it is loaded from, the last
    \* call made on it and what the call returned
    model_file, tok, tok_pc, call, ret, ret_alias,
    \* preprocessor: the call made, its argument, and what it returned
    pre_pc, pre_in, boundaries, split_out, expanded

trainVars == <<lines, regex_gb9c, target_vocab, min_freq, max_merges,
               special_tokens, vocab, token_set, merges, merge_count,
               train_pc, stop, model>>
segVars == <<seg_in, seg_out>>
tokVars == <<model_file, tok, tok_pc, call, ret, ret_alias>>
preVars == <<pre_pc, pre_in, boundaries, split_out, expanded>>
vars == <<trainVars, segVars, tokVars, preVars>>

(***************************************************************************)
(* Code points                                                             *)
(***************************************************************************)
SPACE == 32
SLASH == 47
DIGIT2 == 50
LT == 60
GT == 62
LatinA == 65
LatinD == 68
LatinK == 75
LatinM == 77
LatinN == 78
LatinP == 80
LatinU == 85
ANUSVARA == 2306
VISARGA == 2307
KA == 2325
MA == 2350
MATRA_I == 2367
VIRAMA == 2381
ZWJ == 8205

\* Optional values: None, or Some(x)
None == <<>>

Some(x) == <<x>>

\* unicodedata.category(ch).startswith("M"), for the Devanagari block
\* (U+0900..U+097F); every other code point of the model is not a mark.
IsCategoryM(ch) ==
    \/ ch \in 2304..2307
    \/ ch \in 2362..2364
    \/ ch \in 2366..2383
    \/ ch \in 2385..2391
    \/ ch \in 2402..2403

\* unicodedata.combining(ch) != 0: nukta (7), virama (9) and the Vedic
\* accents U+0951..U+0954 (230, 220); the vowel signs, anusvara and visarga
\* have canonical combining class 0.
_is_combining(ch) == ch = 2364 \/ ch = VIRAMA \/ ch \in 2385..2388

_is_zwj(ch) == ch = ZWJ

_is_virama(ch) == ch = VIRAMA

is_consonant(ch) == ch \in 2325..2361

(***************************************************************************)
(* Python str and list primitives                                          *)
(***************************************************************************)
RECURSIVE Concat(_)
\* "".join(parts)
Concat(parts) ==
    IF parts = <<>> THEN <<>> ELSE Head(parts) \o Concat(Tail(parts))

RECURSIVE JoinSpace(_)
\* " ".join(parts)
JoinSpace(parts) ==
    IF parts = <<>> THEN <<>>
    ELSE IF Len(parts) = 1 THEN Head(parts)
    ELSE Head(parts) \o <<SPACE>> \o JoinSpace(Tail(parts))

\* s[i:i+len(old)] == old
MatchAt(s, i, old) ==
    /\ i + Len(old) - 1 <= Len(s)
    /\ \A k \in 1..Len(old) : s[i + k - 1] = old[k]

\* old in s
Contains(s, old) == \E i \in 1..(Len(s) + 1) : MatchAt(s, i, old)

RECURSIVE ReplaceFrom(_, _, _, _)
ReplaceFrom(s, i, old, new) ==
    IF i > Len(s) THEN <<>>
    ELSE IF MatchAt(s, i, old) THEN new \o ReplaceFrom(s, i + Len(old), old, new)
    ELSE <<s[i]>> \o ReplaceFrom(s, i + 1, old, new)

\* s.replace(old, new) for a non-empty old: leftmost non-overlapping matches
StrReplace(s, old, new) == ReplaceFrom(s, 1, old, new)

RECURSIVE SplitFrom(_, _, _, _)
SplitFrom(s, i, cur, sep) ==
    IF i > Len(s) THEN <<cur>>
    ELSE IF s[i] = sep THEN <<cur>> \o SplitFrom(s, i + 1, <<>>, sep)
    ELSE SplitFrom(s, i + 1, Append(cur, s[i]), sep)

\* s.split(" "): one field per separator, empty fields kept
SplitOnSpace(s) == SplitFrom(s, 1, <<>>, SPACE)

RECURSIVE DropEmpty(_)
DropEmpty(parts) ==
    IF parts = <<>> THEN <<>>
    ELSE IF Head(parts) = <<>> THEN DropEmpty(Tail(parts))
    ELSE <<Head(parts)>> \o DropEmpty(Tail(parts))

\* s.split(): fields between runs of whitespace, no empty field
SplitWhitespace(s) == DropEmpty(SplitOnSpace(s))

RECURSIVE StrLess(_, _)
\* s < t for Python strings (code point order)
StrLess(s, t) ==
    IF t = <<>> THEN FALSE
    ELSE IF s = <<>> THEN TRUE
    ELSE IF Head(s) # Head(t) THEN Head(s) < Head(t)
    ELSE StrLess(Tail(s), Tail(t))

\* p < q for tuples (str, str)
PairLess(p, q) == StrLess(p[1], q[1]) \/ (p[1] = q[1] /\ StrLess(p[2], q[2]))

\* x in lst
InList(x, lst) == \E i \in 1..Len(lst) : lst[i] = x

Range(lst) == {lst[i] : i \in 1..Len(lst)}

(***************************************************************************)
(* Grapheme segmentation                                                   *)
(***************************************************************************)
\* variant of FlushBuf that forgets the buffer
FlushBufDropped(clusters, buf) == clusters

\* sandhi_split.py: "if buf: clusters.append(buf)"
FlushBuf(clusters, buf) ==
    IF buf # <<>> THEN Append(clusters, buf) ELSE clusters

\* variant of grapheme_list_step that takes marks by combining class
grapheme_list_step_by_ccc(clusters, buf, ch) ==
    IF _is_combining(ch) THEN [clusters |-> clusters, buf |-> Append(buf, ch)]
    ELSE [clusters |-> FlushBuf(clusters, buf), buf |-> <<ch>>]

\* one iteration of the for loop of grapheme_list
grapheme_list_step(clusters, buf, ch) ==
    IF IsCategoryM(ch) THEN [clusters |-> clusters, buf |-> Append(buf, ch)]
    ELSE [clusters |-> FlushBuf(clusters, buf), buf |-> <<ch>>]

RECURSIVE grapheme_list_loop(_, _, _, _)
grapheme_list_loop(verse, i, clusters, buf) ==
    IF i > Len(verse) THEN FlushBuf(clusters, buf)
    ELSE LET st == grapheme_list_step(clusters, buf, verse[i])
         IN grapheme_list_loop(verse, i + 1, st.clusters, st.buf)

grapheme_list(verse) == grapheme_list_loop(verse, 1, <<>>, <<>>)

\* one iteration of the for loop of grapheme_clusters (grampheme.py)
grapheme_clusters_step(clusters, current, ch) ==
    IF _is_combining(ch) \/ _is_zwj(ch)
    THEN [clusters |-> clusters, current |-> Append(current, ch)]
    ELSE IF _is_virama(current[Len(current)]) \/ _is_zwj(current[Len(current)])
    THEN [clusters |-> clusters, current |-> Append(current, ch)]
    ELSE [clusters |-> Append(clusters, current), current |-> <<ch>>]

RECURSIVE grapheme_clusters_loop(_, _, _, _)
grapheme_clusters_loop(text, i, clusters, current) ==
    IF i > Len(text) THEN Append(clusters, current)
    ELSE LET st == grapheme_clusters_step(clusters, current, text[i])
         IN grapheme_clusters_loop(text, i + 1, st.clusters, st.current)

grapheme_clusters(text) ==
    IF text = <<>> THEN <<>>
    ELSE grapheme_clusters_loop(text, 2, <<>>, <<text[1]>>)

\* regex \X, Unicode extended grapheme cluster: a code point followed by
\* the Extend, SpacingMark and ZWJ code points after it (rules GB9, GB9a);
\* every Devanagari mark is Extend or SpacingMark.  With conjuncts = TRUE
\* the build of the regex library also applies rule GB9c (a consonant, a
\* virama and a consonant are not separated).
RegexXAttaches(current, ch, conjuncts) ==
    \/ IsCategoryM(ch)
    \/ ch = ZWJ
    \/ /\ conjuncts
       /\ is_consonant(ch)
       /\ current[Len(current)] = VIRAMA
       /\ is_consonant(current[1])

RECURSIVE RegexXLoop(_, _, _, _, _)
RegexXLoop(s, i, clusters, current, conjuncts) ==
    IF i > Len(s) THEN Append(clusters, current)
    ELSE IF RegexXAttaches(current, s[i], conjuncts)
    THEN RegexXLoop(s, i + 1, clusters, Append(current, s[i]), conjuncts)
    ELSE RegexXLoop(s, i + 1, Append(clusters, current), <<s[i]>>, conjuncts)

\* _grapheme_clusters(s) == regex.findall(r"\X", s)
_grapheme_clusters(s, conjuncts) ==
    IF s = <<>> THEN <<>> ELSE RegexXLoop(s, 2, <<>>, <<s[1]>>, conjuncts)

(***************************************************************************)
(* BPE trainer (src/tokenizer/train.py)                                    *)
(***************************************************************************)
DEFAULT_EOS == <<LT, SLASH, LatinM, GT>>
DANDA_TOKEN == <<LT, LatinD, LatinA, LatinN, LatinD, LatinA, GT>>
DOUBLE_DANDA_TOKEN == <<LT, LatinD, LatinA, LatinN, LatinD, LatinA, DIGIT2, GT>>
PAD_TOKEN == <<LT, LatinP, LatinA, LatinD, GT>>
UNK_TOKEN == <<LT, LatinU, LatinN, LatinK, GT>>
DEFAULT_SPECIAL_TOKENS ==
    <<DANDA_TOKEN, DOUBLE_DANDA_TOKEN, DEFAULT_EOS, PAD_TOKEN, UNK_TOKEN>>

\* sum of the natural numbers f[x] over the finite set S
SumOver(S, f) == Cardinality(UNION {{<<x, k>> : k \in 1..f[x]} : x \in S})

\* the symbols of one corpus word (the loop body of _build_initial_vocab)
TrainerInitialSymbols(word, eos, special, conjuncts) ==
    IF InList(word, special) THEN <<word, eos>>
    ELSE Append(_grapheme_clusters(word, conjuncts), eos)

RECURSIVE WordsOfLines(_)
\* the words _build_initial_vocab visits: empty lines skipped, line.split()
WordsOfLines(ls) ==
    IF ls = <<>> THEN <<>>
    ELSE IF Head(ls) = <<>> THEN WordsOfLines(Tail(ls))
    ELSE SplitWhitespace(Head(ls)) \o WordsOfLines(Tail(ls))

_build_initial_vocab(ls, eos, special, conjuncts) ==
    LET ws == WordsOfLines(ls)
        sym(i) == TrainerInitialSymbols(ws[i], eos, special, conjuncts)
        keys == {sym(i) : i \in 1..Len(ws)}
    IN [k \in keys |-> Cardinality({i \in 1..Len(ws) : sym(i) = k})]

AdjacentPairs(word) == {<<word[i], word[i + 1]>> : i \in 1..(Len(word) - 1)}

PairCount(word, p) ==
    Cardinality({i \in 1..(Len(word) - 1) : <<word[i], word[i + 1]>> = p})

get_pair_frequencies(v) ==
    LET ps == UNION {AdjacentPairs(w) : w \in DOMAIN v}
    IN [p \in ps |-> SumOver(DOMAIN v, [w \in DOMAIN v |-> v[w] * PairCount(w, p)])]

\* variant of MergeWord that leaves the word as it is
MergeWordUnmerged(pair, word) == word

\* variant of MergeWord whose merged symbol is the left symbol alone
MergeWordKeepsLeft(pair, word) ==
    LET bigram == pair[1] \o <<SPACE>> \o pair[2]
        s == JoinSpace(word)
    IN IF Contains(s, bigram)
       THEN SplitOnSpace(StrReplace(s, bigram, pair[1]))
       ELSE word

\* the new word form merge_vocab_once gives one word form
MergeWord(pair, word) ==
    LET bigram == pair[1] \o <<SPACE>> \o pair[2]
        merged_symbol == pair[1] \o pair[2]
        s == JoinSpace(word)
    IN IF Contains(s, bigram)
       THEN SplitOnSpace(StrReplace(s, bigram, merged_symbol))
       ELSE word

merge_vocab_once(pair, v) ==
    LET keys == {MergeWord(pair, w) : w \in DOMAIN v}
    IN [k \in keys |->
          SumOver({w \in DOMAIN v : MergeWord(pair, w) = k}, v)]

extract_token_set(v) == UNION {Range(w) : w \in DOMAIN v}

BestFreq(pair_freqs) ==
    CHOOSE f \in {pair_freqs[p] : p \in DOMAIN pair_freqs} :
        \A p \in DOMAIN pair_freqs : pair_freqs[p] <= f

\* variant of BestPair that breaks ties by the largest pair
BestPairLast(pair_freqs) ==
    LET cands == {p \in DOMAIN pair_freqs : pair_freqs[p] = BestFreq(pair_freqs)}
    IN CHOOSE p \in cands : \A q \in cands \ {p} : PairLess(q, p)

\* sorted(best_candidates)[0]
BestPair(pair_freqs) ==
    LET cands == {p \in DOMAIN pair_freqs : pair_freqs[p] = BestFreq(pair_freqs)}
    IN CHOOSE p \in cands : \A q \in cands \ {p} : PairLess(p, q)

RECURSIVE DedupFrom(_, _)
DedupFrom(lst, seen) ==
    IF lst = <<>> THEN <<>>
    ELSE IF Head(lst) \in seen THEN DedupFrom(Tail(lst), seen)
    ELSE <<Head(lst)>> \o DedupFrom(Tail(lst), seen \cup {Head(lst)})

\* variant of SpecialsFirst without the "not in seen" test
SpecialsKeepDuplicates(special) == special

\* build_token2id: "for st in special_tokens: if st not in seen: ..."
SpecialsFirst(special) == DedupFrom(special, {})

\* key=lambda kv: (-kv[1], kv[0])
TokenKeyLess(t, u, token_freq) ==
    \/ token_freq[t] > token_freq[u]
    \/ token_freq[t] = token_freq[u] /\ StrLess(t, u)

\* sorted(..., key=...) over distinct tokens: the token at position i is the
\* one with i - 1 tokens before it
SortedTokens(S, token_freq) ==
    [i \in 1..Cardinality(S) |->
        CHOOSE t \in S :
            Cardinality({u \in S : TokenKeyLess(u, t, token_freq)}) = i - 1]

\* build_token2id: "if eos_marker not in seen: token_list.append(eos_marker)"
EosAppended(token_list, eos) ==
    IF InList(eos, token_list) THEN token_list ELSE Append(token_list, eos)

\* {tok: idx for idx, tok in enumerate(token_list)}: a later index wins
EnumerateDict(token_list) ==
    [t \in Range(token_list) |->
        (CHOOSE i \in 1..Len(token_list) :
            /\ token_list[i] = t
            /\ \A j \in (i + 1)..Len(token_list) : token_list[j] # t) - 1]

TokenList(v, special, eos) ==
    LET toks == extract_token_set(v)
        token_freq == [t \in toks |->
            SumOver(DOMAIN v,
                    [w \in DOMAIN v |->
                        v[w] * Cardinality({i \in 1..Len(w) : w[i] = t})])]
        first == SpecialsFirst(special)
        rest == SortedTokens(toks \ Range(first), token_freq)
    IN EosAppended(first \o rest, eos)

\* (token_list is bound to its value once, then enumerated)
build_token2id(v, special, eos) ==
    CHOOSE token2id \in {EnumerateDict(token_list) :
                            token_list \in {TokenList(v, special, eos)}} : TRUE

(***************************************************************************)
(* BPE tokenizer (src/tokenizer/main.py)                                   *)
(***************************************************************************)
\* list(word): one symbol per code point
ListOfChars(word) == [i \in 1..Len(word) |-> <<word[i]>>]

\* BPETokenizerProd._initial_symbols
_initial_symbols(special, eos, word) ==
    IF InList(word, special) THEN <<word, eos>>
    ELSE Append(ListOfChars(word), eos)

\* d.get(k, default)
Get(d, k, default) == IF k \in DOMAIN d THEN d[k] ELSE default

\* BPETokenizerProd.__init__
NewTokenizer ==
    [bpe_merges |-> <<>>, bpe_ranks |-> <<>>, token2id |-> <<>>,
     id2token |-> <<>>, eos_marker |-> DEFAULT_EOS, special_tokens |-> <<>>,
     encode_cache |-> <<>>, unk_token |-> UNK_TOKEN]

\* BPETokenizerProd.load on the decoded JSON record data
load(data) ==
    LET merges_list == Get(data, "merges", <<>>)
        t2i == Get(data, "token2id", <<>>)
        cfg == Get(data, "config", <<>>)
    IN [bpe_merges |-> merges_list,
        bpe_ranks |-> EnumerateDict(merges_list),
        token2id |-> t2i,
        id2token |-> [i \in {t2i[t] : t \in DOMAIN t2i} |->
                         CHOOSE t \in DOMAIN t2i : t2i[t] = i],
        eos_marker |-> Get(cfg, "eos_marker", DEFAULT_EOS),
        special_tokens |-> Get(cfg, "special_tokens", <<>>),
        encode_cache |-> <<>>,
        unk_token |-> UNK_TOKEN]

\* min(candidate_ranks, key=candidate_ranks.get)
MinRankPair(pairs, bpe_ranks) ==
    CHOOSE p \in pairs : \A q \in pairs : bpe_ranks[p] <= bpe_ranks[q]

RECURSIVE MergeLoop(_, _)
\* the while loop of encode_word
MergeLoop(symbols, bpe_ranks) ==
    IF Len(symbols) < 2 THEN symbols
    ELSE LET candidates == AdjacentPairs(symbols) \cap DOMAIN bpe_ranks
         IN IF candidates = {} THEN symbols
            ELSE LET best_pair == MinRankPair(candidates, bpe_ranks)
                     bigram == best_pair[1] \o <<SPACE>> \o best_pair[2]
                     merged_symbol == best_pair[1] \o best_pair[2]
                     sym_str == StrReplace(JoinSpace(symbols), bigram,
                                           merged_symbol)
                 IN MergeLoop(SplitOnSpace(sym_str), bpe_ranks)

\* "if symbols and symbols[-1] == self.eos_marker: symbols = symbols[:-1]"
DropEos(symbols, eos) ==
    IF symbols # <<>> /\ symbols[Len(symbols)] = eos
    THEN SubSeq(symbols, 1, Len(symbols) - 1)
    ELSE symbols

\* encode_word on a cache miss, before the result is stored
EncodeUncached(t, word) ==
    DropEos(MergeLoop(_initial_symbols(t.special_tokens, t.eos_marker, word),
                      t.bpe_ranks),
            t.eos_marker)

\* variant of CacheHit that returns the cached list itself
CacheHitShared(cache, word) == [symbols |-> cache[word], alias |-> Some(word)]

\* "return list(self._encode_cache[word])": a copy, which shares nothing
\* with the cache entry (alias names the cache entry the returned list is)
CacheHit(cache, word) == [symbols |-> cache[word], alias |-> None]

\* encode_word: the returned list, the cache after the call
encode_word(t, word) ==
    IF word \in DOMAIN t.encode_cache
    THEN LET cached == CacheHit(t.encode_cache, word)
         IN [symbols |-> cached.symbols, alias |-> cached.alias, hit |-> TRUE,
             cache |-> t.encode_cache]
    ELSE LET symbols == EncodeUncached(t, word)
         IN [symbols |-> symbols, alias |-> None, hit |-> FALSE,
             cache |-> (word :> symbols) @@ t.encode_cache]

RECURSIVE EncodeWords(_, _, _, _, _)
\* [self.encode_word(w) for w in words]; hit: some word was in the cache
EncodeWords(t, words, out, aliases, hit) ==
    IF words = <<>>
    THEN [encoded_words |-> out, aliases |-> aliases, hit |-> hit,
          cache |-> t.encode_cache]
    ELSE LET r == encode_word(t, Head(words))
         IN EncodeWords([t EXCEPT !.encode_cache = r.cache], Tail(words),
                        Append(out, r.symbols), Append(aliases, r.alias),
                        hit \/ r.hit)

\* encode(text, return_words): text.strip().split(), then each word
encode(t, text, return_words) ==
    LET r == EncodeWords(t, SplitWhitespace(text), <<>>, <<>>, FALSE)
    IN IF return_words
       THEN [value |-> r.encoded_words, aliases |-> r.aliases, hit |-> r.hit,
             cache |-> r.cache]
       ELSE [value |-> Concat(r.encoded_words), aliases |-> <<>>,
             hit |-> r.hit, cache |-> r.cache]

\* Python's None among ids (ids of a trained vocabulary are never negative)
NoneId == 0 - 1

\* tokens_to_ids of encode_to_ids, with unk_as_id = token2id.get("<UNK>")
tokens_to_ids(t, tok_list) ==
    LET unk_as_id == Get(t.token2id, UNK_TOKEN, NoneId)
    IN [i \in 1..Len(tok_list) |-> Get(t.token2id, tok_list[i], unk_as_id)]

encode_to_ids(t, text, flatten) ==
    LET r == encode(t, text, TRUE)
        per_word == [i \in 1..Len(r.value) |-> tokens_to_ids(t, r.value[i])]
    IN [value |-> IF flatten THEN Concat(per_word) ELSE per_word,
        hit |-> r.hit, cache |-> r.cache]

RECURSIVE DecodeWords(_, _, _, _, _)
\* the second loop of decode_ids(flatten=True), then its "if current:"
DecodeWords(t, tokens, i, words, current) ==
    IF i > Len(tokens)
    THEN IF current # <<>> THEN Append(words, Concat(current)) ELSE words
    ELSE IF InList(tokens[i], t.special_tokens)
    THEN DecodeWords(t, tokens, i + 1,
                     Append(IF current # <<>>
                            THEN Append(words, Concat(current)) ELSE words,
                            tokens[i]),
                     <<>>)
    ELSE IF tokens[i] = t.eos_marker
    THEN DecodeWords(t, tokens, i + 1,
                     IF current # <<>>
                     THEN Append(words, Concat(current)) ELSE Append(words, <<>>),
                     <<>>)
    ELSE DecodeWords(t, tokens, i + 1, words, Append(current, tokens[i]))

RECURSIVE RemoveAll(_, _)
\* [t for t in toks if t != x]
RemoveAll(toks, x) ==
    IF toks = <<>> THEN <<>>
    ELSE IF Head(toks) = x THEN RemoveAll(Tail(toks), x)
    ELSE <<Head(toks)>> \o RemoveAll(Tail(toks), x)

\* decode_ids: int(None) raises TypeError
decode_ids(t, ids, flatten) ==
    IF flatten
    THEN IF \E i \in 1..Len(ids) : ids[i] = NoneId
         THEN [error |-> "TypeError", value |-> <<>>]
         ELSE LET unknown == IF UNK_TOKEN \in DOMAIN t.token2id
                             THEN UNK_TOKEN ELSE <<>>
                  tokens == [i \in 1..Len(ids) |->
                                Get(t.id2token, ids[i], unknown)]
              IN [error |-> "none",
                  value |-> JoinSpace(DecodeWords(t, tokens, 1, <<>>, <<>>))]
    ELSE IF \E w \in 1..Len(ids) : \E i \in 1..Len(ids[w]) : ids[w][i] = NoneId
         THEN [error |-> "TypeError", value |-> <<>>]
         ELSE [error |-> "none",
               value |-> [w \in 1..Len(ids) |->
                   Concat(RemoveAll([i \in 1..Len(ids[w]) |->
                                        Get(t.id2token, ids[w][i], UNK_TOKEN)],
                                    t.eos_marker))]]

(***************************************************************************)
(* The segmenters as a state machine: one call on one string               *)
(***************************************************************************)
MaxSegLen == 3

SegAlphabet == {KA, MA, MATRA_I, VIRAMA, ZWJ}

SegStrings == UNION {[1..n -> SegAlphabet] : n \in 0..MaxSegLen}

\* the strings segmented: every short string, and a special token
SegInputs == SegStrings \cup {DANDA_TOKEN}

SegIdle ==
    /\ seg_in = <<>>
    /\ seg_out = None

\* grapheme_list(s), grapheme_clusters(s), and the initial symbols the
\* trainer and the tokenizer build for s under the default configuration
Segment ==
    /\ \E s \in SegInputs, gb9c \in BOOLEAN :
          /\ seg_in' = s
          /\ seg_out' = Some([
                gb9c |-> gb9c,
                grapheme_list |-> grapheme_list(s),
                grapheme_clusters |-> grapheme_clusters(s),
                trainer |-> TrainerInitialSymbols(s, DEFAULT_EOS,
                                                  DEFAULT_SPECIAL_TOKENS, gb9c),
                tokenizer |-> _initial_symbols(DEFAULT_SPECIAL_TOKENS,
                                               DEFAULT_EOS, s)])
    /\ UNCHANGED <<trainVars, tokVars, preVars>>

\* no tokenizer yet: nothing loaded, nothing called
\* call: the last call, its text and flag, whether the cache served it (hit),
\* whether the caller has since emptied a list it returned (mutated) and
\* whether the caller had done so to some returned list before it (dirty)
NoCall ==
    [op |-> "none", text |-> <<>>, flag |-> FALSE, hit |-> FALSE,
     mutated |-> FALSE, dirty |-> FALSE]

\* no preprocessor function was called yet
PreIdle ==
    /\ pre_pc = "idle"
    /\ pre_in = <<>>
    /\ boundaries = <<>>
    /\ split_out = <<>>
    /\ expanded = <<>>

TokIdle ==
    /\ model_file = None
    /\ tok = NewTokenizer
    /\ tok_pc = "idle"
    /\ call = NoCall
    /\ ret = <<>>
    /\ ret_alias = <<>>

(***************************************************************************)
(* train_bpe as a state machine: one action per loop iteration             *)
(***************************************************************************)
DEFAULT_TARGET_VOCAB == 28000
DEFAULT_MIN_FREQ == 2
MaxCorpusWords == 3
MaxTargetVocab == 9

\* The words of the training corpora: two consonants, alone and together,
\* two words with a vowel sign, and a special token.
TrainWords ==
    << <<KA>>, <<MA>>, <<KA, MA>>, <<KA, MATRA_I>>, <<KA, MA, MATRA_I>>,
       DANDA_TOKEN >>

\* A corpus is one line of at most MaxCorpusWords words separated by single
\* spaces (the Counter of word forms does not depend on the order of the
\* words, so the words are listed in the order of TrainWords).
Corpora ==
    UNION {
        { [i \in 1..n |-> TrainWords[g[i]]] :
            g \in {h \in [1..n -> 1..Len(TrainWords)] :
                      \A i \in 1..(n - 1) : h[i] <= h[i + 1]} } :
        n \in 0..MaxCorpusWords }

\* train_bpe fixes its configuration to the module defaults (lines 213-217);
\* the model draws the target size, the frequency floor, the cap and the
\* special-token list from small sets so that every stop condition is met.
TargetVocabs == {4, MaxTargetVocab}
MinFreqs == {1, DEFAULT_MIN_FREQ}
MaxMergesArgs == {None, Some(1)}
SpecialTokenLists ==
    {DEFAULT_SPECIAL_TOKENS, <<DANDA_TOKEN, PAD_TOKEN, DANDA_TOKEN>>}

HasVirama(ls) == \E i \in 1..Len(ls) : \E j \in 1..Len(ls[i]) : ls[i][j] = VIRAMA

TargetReached(ts, target) == Cardinality(ts) >= target

\* variant of CapReached without the safety cap
CapReachedNever(count, cap) == FALSE

\* "if merge_count >= max_merges"
CapReached(count, cap) == count >= cap

\* "if best_freq < min_freq"
BelowMinFreq(best_freq, floor) == best_freq < floor

\* "max_merges if max_merges is not None else (target_vocab * 10)"
SafetyCap(arg, target) == IF arg = None THEN target * 10 ELSE arg[1]

\* the dict train_bpe returns
TrainedModel(m, v, target, floor, special, cap) ==
    [merges |-> m,
     token2id |-> build_token2id(v, special, DEFAULT_EOS),
     config |-> [target_vocab |-> target, min_freq |-> floor,
                 eos_marker |-> DEFAULT_EOS, special_tokens |-> special,
                 max_merges_cap |-> cap]]

\* before train_bpe is called
TrainIdle ==
    /\ lines = <<>>
    /\ regex_gb9c = FALSE
    /\ target_vocab = 0
    /\ min_freq = 0
    /\ max_merges = 0
    /\ special_tokens = <<>>
    /\ vocab = <<>>
    /\ token_set = {}
    /\ merges = <<>>
    /\ merge_count = 0
    /\ train_pc = "idle"
    /\ stop = "none"
    /\ model = None

\* the calls of train_bpe: a corpus and a configuration
TrainConfigs ==
    [words : Corpora, target_vocab : TargetVocabs, min_freq : MinFreqs,
     max_merges : MaxMergesArgs, special_tokens : SpecialTokenLists]

\* train_bpe up to the head of its loop (lines 213-240), called as one of
\* configs
TrainStartOn(configs) ==
    /\ train_pc = "idle"
    /\ \E c \in configs :
          /\ lines' = <<JoinSpace(c.words)>>
          /\ target_vocab' = c.target_vocab
          /\ min_freq' = c.min_freq
          /\ max_merges' = SafetyCap(c.max_merges, c.target_vocab)
          /\ special_tokens' = c.special_tokens
    /\ regex_gb9c' \in (IF HasVirama(lines') THEN BOOLEAN ELSE {FALSE})
    /\ vocab' = _build_initial_vocab(lines', DEFAULT_EOS, special_tokens',
                                     regex_gb9c')
    /\ token_set' = extract_token_set(vocab')
    /\ merges' = <<>>
    /\ merge_count' = 0
    /\ train_pc' = "loop"
    /\ UNCHANGED <<stop, model>>
    /\ UNCHANGED <<segVars, tokVars, preVars>>

\* train_bpe as its locals configure it (lines 213-217), on a corpus with a doubled
\* and a tripled consonant, and on one where a word runs into the <DANDA>
\* that follows it
DefaultRuns ==
    { [words |-> ws, target_vocab |-> DEFAULT_TARGET_VOCAB,
       min_freq |-> DEFAULT_MIN_FREQ, max_merges |-> None,
       special_tokens |-> DEFAULT_SPECIAL_TOKENS] :
      ws \in { << <<KA, KA>>, <<KA, KA, KA>>, <<KA, KA, KA>> >>,
               << DANDA_TOKEN, DANDA_TOKEN, DANDA_TOKEN,
                  <<KA>> \o DANDA_TOKEN, <<KA>> \o DANDA_TOKEN >> } }

TrainStart == TrainStartOn(TrainConfigs)

\* a break of the loop, and the rest of train_bpe after it
Break(reason) ==
    /\ train_pc' = "done"
    /\ stop' = reason
    /\ model' = Some(TrainedModel(merges, vocab, target_vocab, min_freq,
                                  special_tokens, max_merges))
    /\ UNCHANGED <<lines, regex_gb9c, target_vocab, min_freq, max_merges,
                   special_tokens, vocab, token_set, merges, merge_count>>
    /\ UNCHANGED <<segVars, tokVars, preVars>>

StopTarget ==
    /\ train_pc = "loop"
    /\ TargetReached(token_set, target_vocab)
    /\ Break("target")

StopCap ==
    /\ train_pc = "loop"
    /\ ~TargetReached(token_set, target_vocab)
    /\ CapReached(merge_count, max_merges)
    /\ Break("cap")

StopNoPairs ==
    /\ train_pc = "loop"
    /\ ~TargetReached(token_set, target_vocab)
    /\ ~CapReached(merge_count, max_merges)
    /\ DOMAIN get_pair_frequencies(vocab) = {}
    /\ Break("nopairs")

StopMinFreq ==
    /\ train_pc = "loop"
    /\ ~TargetReached(token_set, target_vocab)
    /\ ~CapReached(merge_count, max_merges)
    /\ \E pair_freqs \in {get_pair_frequencies(vocab)} :
          /\ DOMAIN pair_freqs # {}
          /\ BelowMinFreq(BestFreq(pair_freqs), min_freq)
    /\ Break("minfreq")

MergeStep ==
    /\ train_pc = "loop"
    /\ ~TargetReached(token_set, target_vocab)
    /\ ~CapReached(merge_count, max_merges)
    /\ \E pair_freqs \in {get_pair_frequencies(vocab)} :
          /\ DOMAIN pair_freqs # {}
          /\ ~BelowMinFreq(BestFreq(pair_freqs), min_freq)
          /\ \E best_pair \in {BestPair(pair_freqs)} :
             \E new_vocab \in {merge_vocab_once(best_pair, vocab)} :
                /\ vocab' = new_vocab
                /\ merges' = Append(merges, best_pair)
                /\ merge_count' = merge_count + 1
                /\ token_set' = extract_token_set(new_vocab)
    /\ UNCHANGED <<lines, regex_gb9c, target_vocab, min_freq, max_merges,
                   special_tokens, train_pc, stop, model>>
    /\ UNCHANGED <<segVars, tokVars, preVars>>

TrainNext == TrainStart \/ StopTarget \/ StopCap \/ StopNoPairs \/ StopMinFreq \/ MergeStep

InitTrain == TrainIdle /\ SegIdle /\ TokIdle /\ PreIdle

SpecTrain == InitTrain /\ [][TrainNext]_vars

\* train_bpe is one sequential loop: an iteration that can run does run
SpecTrainFair == SpecTrain /\ WF_vars(TrainNext)

\* train_bpe called with the parameters of TrainConfigs or as DefaultRuns
TrainStartDefault == TrainStartOn(TrainConfigs \cup DefaultRuns)

TrainDefaultNext ==
    TrainStartDefault \/ StopTarget \/ StopCap \/ StopNoPairs \/ StopMinFreq
        \/ MergeStep

SpecTrainDefault == InitTrain /\ [][TrainDefaultNext]_vars

InitSeg == TrainIdle /\ SegIdle /\ TokIdle /\ PreIdle

\* the segmenters called again and again
SpecSeg == InitSeg /\ [][Segment]_vars

(***************************************************************************)
(* Training, saving, loading and the tokenizer's calls as a state machine  *)
(***************************************************************************)
MaxTextWords == 2

\* the trainings whose vocabularies the tokenizer loads: one that stops
\* without a merge, one that merges the marker into a symbol, one of a word
\* with a vowel sign, one that stops at the cap and one at the target
TokConfigs ==
    { [words |-> << <<KA>>, <<MA>> >>, target_vocab |-> MaxTargetVocab,
       min_freq |-> DEFAULT_MIN_FREQ, max_merges |-> None,
       special_tokens |-> DEFAULT_SPECIAL_TOKENS],
      [words |-> << <<KA>>, <<KA>>, <<MA>> >>, target_vocab |-> MaxTargetVocab,
       min_freq |-> DEFAULT_MIN_FREQ, max_merges |-> None,
       special_tokens |-> DEFAULT_SPECIAL_TOKENS],
      [words |-> << <<KA, MATRA_I>>, <<KA, MATRA_I>> >>,
       target_vocab |-> MaxTargetVocab,
       min_freq |-> 1, max_merges |-> None,
       special_tokens |-> DEFAULT_SPECIAL_TOKENS],
      [words |-> << <<KA, MA>>, <<KA, MA>>, DANDA_TOKEN >>,
       target_vocab |-> MaxTargetVocab,
       min_freq |-> DEFAULT_MIN_FREQ, max_merges |-> Some(1),
       special_tokens |-> DEFAULT_SPECIAL_TOKENS],
      [words |-> << <<KA, MA>>, <<KA, MA>>, DANDA_TOKEN >>,
       target_vocab |-> 4,
       min_freq |-> DEFAULT_MIN_FREQ, max_merges |-> None,
       special_tokens |-> DEFAULT_SPECIAL_TOKENS] }

\* the words the tokenizer is called on
TokWords == { <<KA>>, <<KA, MATRA_I>>, DANDA_TOKEN }

\* texts of words separated by single spaces
TokTexts ==
    { JoinSpace(ws) : ws \in UNION {[1..n -> TokWords] : n \in 0..MaxTextWords} }

TokTrainStart == TrainStartOn(TokConfigs)

\* save_model: json.dumps keeps the dict's keys, numbers, strings and lists
save_model ==
    /\ train_pc = "done"
    /\ model_file = None
    /\ model_file' = model
    /\ UNCHANGED <<trainVars, segVars, preVars, tok, tok_pc, call, ret, ret_alias>>

\* {int(v): k for k, v in token2id.items()}: of several tokens with one id
\* the one that comes last in the file wins; the file's key order is not part
\* of the table, so each of them may be the winner
Id2TokenTables(t2i) ==
    LET ids == {t2i[t] : t \in DOMAIN t2i}
        shared == {i \in ids : Cardinality({t \in DOMAIN t2i : t2i[t] = i}) > 1}
    IN { [i \in ids |-> IF i \in shared THEN winner[i]
                        ELSE CHOOSE t \in DOMAIN t2i : t2i[t] = i] :
           winner \in {w \in [shared -> DOMAIN t2i] :
                          \A i \in shared : t2i[w[i]] = i} }

\* BPETokenizerProd.load on the file at model_path, when it exists
Load ==
    /\ model_file # None
    /\ tok_pc = "idle"
    /\ \E id2token \in Id2TokenTables(Get(model_file[1], "token2id", <<>>)) :
          tok' = [load(model_file[1]) EXCEPT !.id2token = id2token]
    /\ tok_pc' = "loaded"
    /\ UNCHANGED <<trainVars, segVars, preVars, model_file, call, ret, ret_alias>>

EncodeWord ==
    /\ tok_pc = "loaded"
    /\ \E word \in TokWords :
       \E r \in {encode_word(tok, word)} :
          /\ tok' = [tok EXCEPT !.encode_cache = r.cache]
          /\ call' = [op |-> "encode_word", text |-> word, flag |-> FALSE,
                      hit |-> r.hit, mutated |-> FALSE,
                      dirty |-> call.dirty \/ call.mutated]
          /\ ret' = r.symbols
          /\ ret_alias' = <<r.alias>>
    /\ UNCHANGED <<trainVars, segVars, preVars, model_file, tok_pc>>

Encode ==
    /\ tok_pc = "loaded"
    /\ \E text \in TokTexts, return_words \in BOOLEAN :
       \E r \in {encode(tok, text, return_words)} :
          /\ tok' = [tok EXCEPT !.encode_cache = r.cache]
          /\ call' = [op |-> "encode", text |-> text, flag |-> return_words,
                      hit |-> r.hit, mutated |-> FALSE,
                      dirty |-> call.dirty \/ call.mutated]
          /\ ret' = r.value
          /\ ret_alias' = r.aliases
    /\ UNCHANGED <<trainVars, segVars, preVars, model_file, tok_pc>>

EncodeToIds ==
    /\ tok_pc = "loaded"
    /\ \E text \in TokTexts, flatten \in BOOLEAN :
       \E r \in {encode_to_ids(tok, text, flatten)} :
          /\ tok' = [tok EXCEPT !.encode_cache = r.cache]
          /\ call' = [op |-> "encode_to_ids", text |-> text, flag |-> flatten,
                      hit |-> r.hit, mutated |-> FALSE,
                      dirty |-> call.dirty \/ call.mutated]
          /\ ret' = r.value
          /\ ret_alias' = <<>>
    /\ UNCHANGED <<trainVars, segVars, preVars, model_file, tok_pc>>

\* decode_ids on the ids the last encode_to_ids returned, same flatten
DecodeIds ==
    /\ tok_pc = "loaded"
    /\ call.op = "encode_to_ids"
    /\ \E r \in {decode_ids(tok, ret, call.flag)} :
          /\ call' = [call EXCEPT !.op = IF r.error = "none" THEN "decode_ids"
                                         ELSE r.error]
          /\ ret' = r.value
    /\ UNCHANGED <<trainVars, segVars, preVars, model_file, tok, tok_pc, ret_alias>>

ClearCache ==
    /\ tok_pc = "loaded"
    /\ tok.encode_cache # <<>>
    /\ tok' = [tok EXCEPT !.encode_cache = <<>>]
    /\ UNCHANGED <<trainVars, segVars, preVars, model_file, tok_pc, call, ret, ret_alias>>

\* the cache after the list that is its entry for word was emptied in place
CacheAfterClear(cache, alias) ==
    IF alias = None THEN cache ELSE [cache EXCEPT ![alias[1]] = <<>>]

\* the caller empties in place a list encode_word or encode gave it
CallerMutates ==
    /\ tok_pc = "loaded"
    /\ ~call.mutated
    /\ \/ /\ call.op = "encode_word"
          /\ ret' = <<>>
          /\ tok' = [tok EXCEPT !.encode_cache =
                        CacheAfterClear(tok.encode_cache, ret_alias[1])]
       \/ /\ call.op = "encode" /\ call.flag
          /\ \E i \in 1..Len(ret) :
                /\ ret' = [ret EXCEPT ![i] = <<>>]
                /\ tok' = [tok EXCEPT !.encode_cache =
                              CacheAfterClear(tok.encode_cache, ret_alias[i])]
    /\ call' = [call EXCEPT !.mutated = TRUE]
    /\ UNCHANGED <<trainVars, segVars, preVars, model_file, tok_pc, ret_alias>>

TokNext ==
    \/ TokTrainStart \/ StopTarget \/ StopCap \/ StopNoPairs \/ StopMinFreq
    \/ MergeStep \/ save_model \/ Load \/ EncodeWord \/ Encode \/ EncodeToIds
    \/ DecodeIds \/ ClearCache \/ CallerMutates

SpecTok == InitTrain /\ [][TokNext]_vars

(***************************************************************************)
(* Loading a missing or damaged model file, decoding arbitrary ids         *)
(***************************************************************************)
MaxIds == 2

\* the trainings of TokConfigs, and one whose special tokens lack <UNK>
LoadConfigs ==
    TokConfigs \cup
    { [words |-> << <<KA>>, <<KA>>, <<MA>> >>, target_vocab |-> MaxTargetVocab,
       min_freq |-> DEFAULT_MIN_FREQ, max_merges |-> None,
       special_tokens |-> <<DANDA_TOKEN, PAD_TOKEN, DANDA_TOKEN>>] }

LoadTrainStart == TrainStartOn(LoadConfigs)

\* the record without one of its fields
WithoutField(data, field) == [k \in DOMAIN data \ {field} |-> data[k]]

\* the record with the highest id of its token2id replaced by id 0
WithSharedId(data) ==
    LET t2i == data.token2id
        top == Cardinality(DOMAIN t2i) - 1
    IN [data EXCEPT !.token2id =
           [t \in DOMAIN t2i |-> IF t2i[t] = top THEN 0 ELSE t2i[t]]]

\* the file was truncated or edited after save_model wrote it
DamageFile ==
    /\ model_file # None
    /\ model_file = model
    /\ tok_pc = "idle"
    /\ \E damaged \in {WithoutField(model[1], f) :
                          f \in {"merges", "token2id", "config"}}
                      \cup {WithSharedId(model[1])} :
          model_file' = Some(damaged)
    /\ UNCHANGED <<trainVars, segVars, preVars, tok, tok_pc, call, ret, ret_alias>>

\* BPETokenizerProd.load when no file is at model_path: FileNotFoundError
LoadAbsent ==
    /\ model_file = None
    /\ tok_pc = "idle"
    /\ tok_pc' = "FileNotFoundError"
    /\ UNCHANGED <<trainVars, segVars, preVars, model_file, tok, call, ret, ret_alias>>

\* an id no token has, whether or not the ids are dense
UnknownId(t) == Cardinality(DOMAIN t.token2id)

FlatIds(t) == UNION {[1..n -> {0, UnknownId(t)}] : n \in 0..MaxIds}

\* lists of ids for flatten=True, lists of per-word lists for flatten=False
DecodeInputs(t, flatten) ==
    IF flatten THEN FlatIds(t)
    ELSE {<<ids>> : ids \in FlatIds(t)}
         \cup {<<ids, <<0>>>> : ids \in FlatIds(t)}

\* decode_ids on ids of the caller's own; call.text holds the ids
DecodeAny ==
    /\ tok_pc = "loaded"
    /\ \E flatten \in BOOLEAN :
       \E ids \in DecodeInputs(tok, flatten) :
       \E r \in {decode_ids(tok, ids, flatten)} :
          /\ call' = [op |-> "decode_any", text |-> ids, flag |-> flatten,
                      hit |-> FALSE, mutated |-> FALSE, dirty |-> FALSE]
          /\ ret' = r.value
    /\ UNCHANGED <<trainVars, segVars, preVars, model_file, tok, tok_pc, ret_alias>>

LoadNext ==
    \/ LoadTrainStart \/ StopTarget \/ StopCap \/ StopNoPairs \/ StopMinFreq
    \/ MergeStep \/ save_model \/ DamageFile \/ Load \/ LoadAbsent \/ DecodeAny

SpecLoad == InitTrain /\ [][LoadNext]_vars

(***************************************************************************)
(* Preprocessor: constants of common.py                                    *)
(***************************************************************************)
NEWLINE == 10
VERTICAL_BAR == 124
VOWEL_A == 2309
NGA == 2329
CA == 2330
CHA == 2331
NYA == 2334
TTA == 2335
NNA == 2339
TA == 2340
DA == 2342
DHA == 2343
NA == 2344
SHA == 2358
SA == 2360
YA == 2351
NUKTA == 2364
MATRA_AA == 2366
DANDA == 2404
DOUBLE_DANDA == 2405

VOWELS_INDEP ==
    {2309, 2310, 2311, 2312, 2313, 2314, 2315, 2400, 2316, 2401, 2319, 2320,
     2323, 2324}

\* the keys of MATRA_TO_INDEP
MATRA_TO_INDEP_keys ==
    {2366, 2367, 2368, 2369, 2370, 2371, 2372, 2375, 2376, 2379, 2380}

GUTTURALS == 2325..2329
PALATALS == 2330..2334
RETROFLEX == 2335..2339
DENTALS == 2340..2344
LABIALS == 2346..2350

NASAL_FOR_CLASS ==
    [guttural |-> <<NGA, VIRAMA>>, palatal |-> <<NYA, VIRAMA>>,
     retroflex |-> <<NNA, VIRAMA>>, dental |-> <<NA, VIRAMA>>,
     labial |-> <<MA, VIRAMA>>]

\* VOWEL_REVERSE_RULES[cp], a pair of independent vowels
VOWEL_REVERSE_RULES ==
    (2380 :> <<VOWEL_A, 2314>>) @@ (2376 :> <<VOWEL_A, 2312>>)
    @@ (2379 :> <<VOWEL_A, 2313>>) @@ (2375 :> <<VOWEL_A, 2311>>)
    @@ (MATRA_AA :> <<VOWEL_A, VOWEL_A>>)
    @@ (2324 :> <<VOWEL_A, 2314>>) @@ (2320 :> <<VOWEL_A, 2312>>)
    @@ (2323 :> <<VOWEL_A, 2313>>) @@ (2319 :> <<VOWEL_A, 2311>>)
    @@ (2310 :> <<VOWEL_A, VOWEL_A>>)

\* SPECIFIC_CONSONANT_REVERSES.items(), in the order of the dict
SPECIFIC_CONSONANT_REVERSES ==
    << [key |-> <<CA, VIRAMA, CA>>, l_rep |-> <<TA, VIRAMA>>, r_rep |-> <<CA>>],
       [key |-> <<CA, VIRAMA, CHA>>, l_rep |-> <<TA, VIRAMA>>, r_rep |-> <<CHA>>],
       [key |-> <<TA, VIRAMA, TA>>, l_rep |-> <<TA, VIRAMA>>, r_rep |-> <<TA>>],
       [key |-> <<DA, VIRAMA, DHA>>, l_rep |-> <<DA, VIRAMA>>, r_rep |-> <<DHA>>] >>

SPECIAL_TOKENS_SET == <<DANDA_TOKEN, DOUBLE_DANDA_TOKEN>>

(***************************************************************************)
(* Preprocessor: str methods and NFC                                       *)
(***************************************************************************)
\* ch.isspace(), which is also what \s of re matches
IsSpace(ch) ==
    \/ ch \in 9..13
    \/ ch \in 28..32
    \/ ch \in {133, 160, 5760, 8232, 8233, 8239, 8287, 12288}
    \/ ch \in 8192..8202

\* the line boundaries of str.splitlines
IsLineBreak(ch) == ch \in 10..13 \/ ch \in 28..30 \/ ch \in {133, 8232, 8233}

\* s.startswith(prefix)
StartsWith(s, prefix) == MatchAt(s, 1, prefix)

\* s[:-1]
ButLast(s) == SubSeq(s, 1, Len(s) - 1)

RECURSIVE LStrip(_)
LStrip(s) ==
    IF s # <<>> /\ IsSpace(Head(s)) THEN LStrip(Tail(s)) ELSE s

RECURSIVE RStrip(_)
RStrip(s) ==
    IF s # <<>> /\ IsSpace(s[Len(s)]) THEN RStrip(ButLast(s)) ELSE s

\* s.strip()
Strip(s) == RStrip(LStrip(s))

RECURSIVE ReplaceFirstFrom(_, _, _, _)
ReplaceFirstFrom(s, i, old, new) ==
    IF i > Len(s) THEN s
    ELSE IF MatchAt(s, i, old)
    THEN SubSeq(s, 1, i - 1) \o new \o SubSeq(s, i + Len(old), Len(s))
    ELSE ReplaceFirstFrom(s, i + 1, old, new)

\* s.replace(old, new, 1) for a non-empty old
ReplaceFirst(s, old, new) == ReplaceFirstFrom(s, 1, old, new)

RECURSIVE SplitLinesFrom(_, _, _)
SplitLinesFrom(s, i, cur) ==
    IF i > Len(s) THEN (IF cur = <<>> THEN <<>> ELSE <<cur>>)
    ELSE IF s[i] = 13 /\ i < Len(s) /\ s[i + 1] = NEWLINE
    THEN <<cur>> \o SplitLinesFrom(s, i + 2, <<>>)
    ELSE IF IsLineBreak(s[i]) THEN <<cur>> \o SplitLinesFrom(s, i + 1, <<>>)
    ELSE SplitLinesFrom(s, i + 1, Append(cur, s[i]))

\* s.splitlines(): no line for the text after the last line boundary when
\* that text is empty
SplitLines(s) == SplitLinesFrom(s, 1, <<>>)

\* canonical combining class of the Devanagari block
CanonicalClass(ch) ==
    IF ch = NUKTA THEN 7
    ELSE IF ch = VIRAMA THEN 9
    ELSE IF ch = 2386 THEN 220
    ELSE IF ch \in {2385, 2387, 2388} THEN 230
    ELSE 0

\* canonical decomposition: the letters with a built-in nukta
CanonicalDecomposition(ch) ==
    IF ch = 2345 THEN <<NA, NUKTA>>
    ELSE IF ch = 2353 THEN <<2352, NUKTA>>
    ELSE IF ch = 2356 THEN <<2355, NUKTA>>
    ELSE IF ch = 2392 THEN <<KA, NUKTA>>
    ELSE IF ch = 2393 THEN <<2326, NUKTA>>
    ELSE IF ch = 2394 THEN <<2327, NUKTA>>
    ELSE IF ch = 2395 THEN <<2332, NUKTA>>
    ELSE IF ch = 2396 THEN <<2337, NUKTA>>
    ELSE IF ch = 2397 THEN <<2338, NUKTA>>
    ELSE IF ch = 2398 THEN <<2347, NUKTA>>
    ELSE IF ch = 2399 THEN <<YA, NUKTA>>
    ELSE <<ch>>

RECURSIVE CanonicalOrder(_)
\* marks of a run that are out of the order of their classes change places
CanonicalOrder(s) ==
    LET bad == {i \in 1..(Len(s) - 1) :
                   /\ CanonicalClass(s[i + 1]) > 0
                   /\ CanonicalClass(s[i]) > CanonicalClass(s[i + 1])}
    IN IF bad = {} THEN s
       ELSE LET i == CHOOSE k \in bad : \A j \in bad : k <= j
            IN CanonicalOrder([s EXCEPT ![i] = s[i + 1], ![i + 1] = s[i]])

RECURSIVE CanonicalCompose(_)
\* the three compositions that are not excluded: NA, RA and LLA with nukta
CanonicalCompose(s) ==
    IF Len(s) < 2 THEN s
    ELSE IF s[2] = NUKTA /\ s[1] \in {NA, 2352, 2355}
    THEN <<s[1] + 1>> \o CanonicalCompose(SubSeq(s, 3, Len(s)))
    ELSE <<s[1]>> \o CanonicalCompose(Tail(s))

\* unicodedata.normalize("NFC", verse)
normalize_verse(verse) ==
    CanonicalCompose(CanonicalOrder(
        Concat([i \in 1..Len(verse) |-> CanonicalDecomposition(verse[i])])))

(***************************************************************************)
(* Preprocessor: sandhi reversal (sandhi_split.py)                         *)
(***************************************************************************)
\* ch in VOWELS_INDEP, for a str of any length
is_vowel_indep(ch) == Len(ch) = 1 /\ ch[1] \in VOWELS_INDEP

\* ch in MATRA_TO_INDEP.keys()
is_matras(ch) == Len(ch) = 1 /\ ch[1] \in MATRA_TO_INDEP_keys

\* next_ch in one of the sets of consonants
InClass(next_ch, class) == Len(next_ch) = 1 /\ next_ch[1] \in class

\* variant of anusvara_replacements that gives the dental nasal everywhere
anusvara_replacements_dental(next_ch) ==
    IF next_ch = <<>> THEN <<>> ELSE <<NASAL_FOR_CLASS.dental>>

anusvara_replacements(next_ch) ==
    IF next_ch = <<>> THEN <<>>
    ELSE IF InClass(next_ch, GUTTURALS) THEN <<NASAL_FOR_CLASS.guttural>>
    ELSE IF InClass(next_ch, PALATALS) THEN <<NASAL_FOR_CLASS.palatal>>
    ELSE IF InClass(next_ch, RETROFLEX) THEN <<NASAL_FOR_CLASS.retroflex>>
    ELSE IF InClass(next_ch, DENTALS) THEN <<NASAL_FOR_CLASS.dental>>
    ELSE IF InClass(next_ch, LABIALS) THEN <<NASAL_FOR_CLASS.labial>>
    ELSE <<NASAL_FOR_CLASS.dental>>

\* variant of visarga_replacements that only removes the visarga
visarga_replacements_removal(next_ch) == << <<>> >>

visarga_replacements(next_ch) ==
    IF next_ch = <<>> THEN << <<>> >>
    ELSE << <<>>, <<SA, VIRAMA>>, <<SHA, VIRAMA>> >>

gemination_reversal(left, right) ==
    IF Len(right) >= 2 /\ right[1] = right[2] /\ is_consonant(right[1])
    THEN << <<Append(left, right[1]), Tail(right)>> >>
    ELSE <<>>

\* the candidate of the vowel rule, if it applies
VowelReversal(left, right, lg, first) ==
    LET last == lg[Len(lg)]
        last_cp == last[Len(last)]
    IN IF /\ last_cp \in DOMAIN VOWEL_REVERSE_RULES
          /\ (is_vowel_indep(first) \/ is_matras(first))
       THEN LET a == VOWEL_REVERSE_RULES[last_cp][1]
                b == VOWEL_REVERSE_RULES[last_cp][2]
            IN << <<Append(Concat(ButLast(lg)), a), <<b>> \o right>> >>
       ELSE <<>>

AnusvaraReversal(left, right) ==
    IF left[Len(left)] = ANUSVARA
    THEN LET reps == anusvara_replacements(<<right[1]>>)
         IN [i \in 1..Len(reps) |-> <<ButLast(left) \o reps[i], right>>]
    ELSE <<>>

VisargaReversal(left, right, first) ==
    IF left[Len(left)] = VISARGA
    THEN LET reps == visarga_replacements(<<first[1]>>)
         IN [i \in 1..Len(reps) |-> <<ButLast(left) \o reps[i], right>>]
    ELSE <<>>

RECURSIVE SpecificReversals(_, _, _)
SpecificReversals(left, right, items) ==
    IF items = <<>> THEN <<>>
    ELSE (IF StartsWith(right, Head(items).key)
          THEN << <<left \o Head(items).l_rep,
                    Head(items).r_rep
                        \o SubSeq(right, Len(Head(items).key) + 1, Len(right))>> >>
          ELSE <<>>)
         \o SpecificReversals(left, right, Tail(items))

RECURSIVE Uniq(_, _)
\* the "seen" loop: the first of equal pairs is kept
Uniq(results, uniq) ==
    IF results = <<>> THEN uniq
    ELSE IF InList(Head(results), uniq) THEN Uniq(Tail(results), uniq)
    ELSE Uniq(Tail(results), Append(uniq, Head(results)))

reverse_at_boundary(left_arg, right_arg) ==
    LET left == normalize_verse(left_arg)
        right == normalize_verse(right_arg)
    IN IF left = <<>> \/ right = <<>> THEN <<>>
       ELSE LET lg == grapheme_list(left)
                rg == grapheme_list(right)
                first == rg[1]
            IN Uniq(VowelReversal(left, right, lg, first)
                        \o AnusvaraReversal(left, right)
                        \o VisargaReversal(left, right, first)
                        \o gemination_reversal(left, right)
                        \o SpecificReversals(left, right,
                                             SPECIFIC_CONSONANT_REVERSES),
                    <<>>)

\* the boundaries all_splits_for_token tries, each with what
\* reverse_at_boundary returned for it
BoundariesOf(token) ==
    LET g == grapheme_list(normalize_verse(token))
    IN [i \in 1..(Len(g) - 1) |->
          LET left == Concat(SubSeq(g, 1, i))
              right == Concat(SubSeq(g, i + 1, Len(g)))
          IN [left |-> left, right |-> right,
              cands |-> reverse_at_boundary(left, right)]]

all_splits_for_token(token) ==
    LET b == BoundariesOf(token)
    IN Concat([i \in 1..Len(b) |-> b[i].cands])

RECURSIVE NonSpaceRuns(_, _, _)
\* the parts of re.split(r"(\s+)", line) that have a character left after
\* strip(): the runs of characters that are not whitespace
NonSpaceRuns(line, i, cur) ==
    IF i > Len(line) THEN (IF cur = <<>> THEN <<>> ELSE <<cur>>)
    ELSE IF IsSpace(line[i])
    THEN (IF cur = <<>> THEN <<>> ELSE <<cur>>)
         \o NonSpaceRuns(line, i + 1, <<>>)
    ELSE NonSpaceRuns(line, i + 1, Append(cur, line[i]))

\* the two "continue" tests of generate_split_candidates
SkippedToken(t) ==
    \/ \E i \in 1..Len(t) : t[i] \in {DANDA, SPACE, DOUBLE_DANDA, VERTICAL_BAR}
    \/ ~ \E i \in 1..Len(t) : t[i] \in 2304..2431

generate_split_candidates(text) ==
    LET text_lines == SplitLines(text)
        tokens == Concat([i \in 1..Len(text_lines) |->
                             NonSpaceRuns(text_lines[i], 1, <<>>)])
    IN Concat([i \in 1..Len(tokens) |->
                  IF SkippedToken(tokens[i]) THEN <<>>
                  ELSE all_splits_for_token(tokens[i])])

(***************************************************************************)
(* Preprocessor: the verse expander (common.py, main.py)                   *)
(***************************************************************************)
is_sanskrit_char(ch) ==
    \/ ch \in 2304..2431
    \/ ch \in 43232..43263
    \/ ch \in 72448..72543
    \/ ch \in 7376..7423

RECURSIVE sanitize_verse(_)
sanitize_verse(verse) ==
    IF verse = <<>> THEN <<>>
    ELSE (IF is_sanskrit_char(Head(verse)) \/ IsSpace(Head(verse))
          THEN <<Head(verse)>> ELSE <<>>) \o sanitize_verse(Tail(verse))

insert_special_tokens(verse) ==
    LET v1 == StrReplace(verse, <<DANDA>>, DANDA_TOKEN)
        v2 == StrReplace(v1, <<VERTICAL_BAR>>, DANDA_TOKEN)
        v3 == StrReplace(v2, <<DOUBLE_DANDA>>, DOUBLE_DANDA_TOKEN)
    IN StrReplace(v3, <<VERTICAL_BAR, VERTICAL_BAR>>, DOUBLE_DANDA_TOKEN)

\* the alternative of "tok1|tok2|..." that matches at position i, or None
TokenAt(s, i, tokens) ==
    LET hits == {k \in 1..Len(tokens) : MatchAt(s, i, tokens[k])}
    IN IF hits = {} THEN None
       ELSE Some(tokens[CHOOSE k \in hits : \A j \in hits : k <= j])

RECURSIVE SegmentsFrom(_, _, _, _)
\* re.split on the captured tokens, then every text joined to the token
\* after it; an empty segment is dropped
SegmentsFrom(verse, i, cur, tokens) ==
    IF i > Len(verse) THEN (IF cur = <<>> THEN <<>> ELSE <<cur>>)
    ELSE LET hit == TokenAt(verse, i, tokens)
         IN IF hit # None
            THEN <<cur \o hit[1]>>
                     \o SegmentsFrom(verse, i + Len(hit[1]), <<>>, tokens)
            ELSE SegmentsFrom(verse, i + 1, Append(cur, verse[i]), tokens)

split_verse_by_special_tokens(verse, tokens) ==
    SegmentsFrom(verse, 1, <<>>, tokens)

RECURSIVE MorphemesFrom(_, _, _, _)
\* re.split on "(?:tok1|tok2|\s+)" and the filter of its parts
MorphemesFrom(verse, i, cur, exclude_tokens) ==
    LET part == IF cur = <<>> \/ InList(cur, exclude_tokens)
                THEN <<>> ELSE <<cur>>
    IN IF i > Len(verse) THEN part
       ELSE LET hit == TokenAt(verse, i, exclude_tokens)
            IN IF hit # None
               THEN part \o MorphemesFrom(verse, i + Len(hit[1]), <<>>,
                                          exclude_tokens)
               ELSE IF IsSpace(verse[i])
               THEN part \o MorphemesFrom(verse, i + 1, <<>>, exclude_tokens)
               ELSE MorphemesFrom(verse, i + 1, Append(cur, verse[i]),
                                  exclude_tokens)

get_morphemes_from_verse(verse, exclude_tokens) ==
    MorphemesFrom(verse, 1, <<>>, exclude_tokens)

\* all_split_options of main: per morpheme its candidates, or the morpheme
\* itself with an empty right part
SplitOptions(morphemes) ==
    [k \in 1..Len(morphemes) |->
        LET splits == generate_split_candidates(morphemes[k])
        IN IF Len(splits) = 0 THEN << <<morphemes[k], <<>>>> >> ELSE splits]

RECURSIVE Product(_)
\* itertools.product(*options): the last position changes fastest
Product(options) ==
    IF options = <<>> THEN << <<>> >>
    ELSE LET rest == Product(Tail(options))
         IN Concat([i \in 1..Len(Head(options)) |->
                       [j \in 1..Len(rest) |-> <<Head(options)[i]>> \o rest[j]]])

\* new_verse.replace(original, f"{left} {right}", 1)
ReplaceOriginal(new_verse, original, left, right) ==
    ReplaceFirst(new_verse, original, left \o <<SPACE>> \o right)

RECURSIVE ReplaceCombo(_, _, _, _)
\* the loop over zip(morphemes, combo)
ReplaceCombo(new_verse, morphemes, combo, k) ==
    IF k > Len(morphemes) \/ k > Len(combo) THEN new_verse
    ELSE ReplaceCombo(
            IF combo[k][2] # <<>>
            THEN ReplaceOriginal(new_verse, morphemes[k], combo[k][1],
                                 combo[k][2])
            ELSE new_verse,
            morphemes, combo, k + 1)

\* the lines main appends for one verse segment v
ExpandSegment(v) ==
    LET morphemes == get_morphemes_from_verse(v, SPECIAL_TOKENS_SET)
        combos == Product(SplitOptions(morphemes))
    IN [v |-> v,
        lines |-> [c \in 1..Len(combos) |->
                      Strip(ReplaceCombo(v, morphemes, combos[c], 1))]]

\* the body of main's loop for one verse: per segment, the lines appended
ExpandVerse(verse) ==
    LET tokenized_verse ==
            insert_special_tokens(sanitize_verse(normalize_verse(verse)))
        split_verses ==
            split_verse_by_special_tokens(tokenized_verse, SPECIAL_TOKENS_SET)
    IN [i \in 1..Len(split_verses) |-> ExpandSegment(split_verses[i])]

(***************************************************************************)
(* Preprocessor state machine                                              *)
(***************************************************************************)
MaxTokenLen == 3
MaxTextTokens == 2
MaxVerseWords == 2

\* a consonant of each class and one of none, a vowel and a vowel sign, the
\* marks the rules look at, and the nukta and NA that NFC composes
SandhiAlphabet ==
    {KA, CA, TTA, TA, NA, MA, YA, VOWEL_A, MATRA_AA, ANUSVARA, VISARGA,
     VIRAMA, NUKTA}

SandhiTokens ==
    UNION {[1..n -> SandhiAlphabet] : n \in 1..MaxTokenLen}

\* words with one anusvara, with two, with a visarga, with a long vowel
\* before a vowel, with a doubled consonant, and one without a candidate
SandhiWords ==
    { <<KA, ANUSVARA, KA>>, <<KA, ANUSVARA, KA, ANUSVARA, KA>>,
      <<KA, VISARGA, KA>>, <<KA, MATRA_AA, VOWEL_A>>, <<KA, TA, TA>>, <<KA>> }

RECURSIVE JoinWith(_, _)
\* the words with seps[k] between word k and word k+1
JoinWith(words, seps) ==
    IF Len(words) = 1 THEN words[1]
    ELSE words[1] \o <<seps[1]>> \o JoinWith(Tail(words), Tail(seps))

SandhiTexts ==
    UNION { {JoinWith(ws, seps) :
                ws \in [1..n -> SandhiWords],
                seps \in [1..(n - 1) -> {SPACE, NEWLINE}]} :
            n \in 1..MaxTextTokens }

\* raw verses: words, blanks, and a danda or a vertical bar at the end
Verses ==
    UNION { {JoinWith(ws, seps) \o end :
                ws \in [1..n -> SandhiWords],
                seps \in [1..(n - 1) -> {SPACE, DANDA}],
                end \in {<<>>, <<SPACE, DANDA>>, <<VERTICAL_BAR>>}} :
            n \in 1..MaxVerseWords }

\* all_splits_for_token(token)
AllSplitsForToken ==
    /\ pre_pc = "idle"
    /\ \E token \in SandhiTokens :
          /\ pre_in' = token
          /\ boundaries' = BoundariesOf(token)
          /\ split_out' = all_splits_for_token(token)
    /\ pre_pc' = "all_splits_for_token"
    /\ UNCHANGED expanded
    /\ UNCHANGED <<trainVars, segVars, tokVars>>

\* generate_split_candidates(text)
GenerateSplitCandidates ==
    /\ pre_pc = "idle"
    /\ \E text \in SandhiTexts :
          /\ pre_in' = text
          /\ split_out' = generate_split_candidates(text)
    /\ pre_pc' = "generate_split_candidates"
    /\ UNCHANGED <<boundaries, expanded>>
    /\ UNCHANGED <<trainVars, segVars, tokVars>>

\* one iteration of "for verse in read_lines(input_file)" of main
MainVerse ==
    /\ pre_pc = "idle"
    /\ \E verse \in Verses :
          /\ pre_in' = verse
          /\ expanded' = ExpandVerse(verse)
    /\ pre_pc' = "main"
    /\ UNCHANGED <<boundaries, split_out>>
    /\ UNCHANGED <<trainVars, segVars, tokVars>>

\* the function returned; the next call starts from nothing
PreReturn ==
    /\ pre_pc # "idle"
    /\ pre_pc' = "idle"
    /\ pre_in' = <<>>
    /\ boundaries' = <<>>
    /\ split_out' = <<>>
    /\ expanded' = <<>>
    /\ UNCHANGED <<trainVars, segVars, tokVars>>

PreNext == AllSplitsForToken \/ GenerateSplitCandidates \/ MainVerse \/ PreReturn

SpecPre == InitTrain /\ [][PreNext]_vars

(***************************************************************************)
(* Properties of training (SpecTrain, SpecTrainFair)                       *)
(***************************************************************************)
InitialVocab ==
    _build_initial_vocab(lines, DEFAULT_EOS, special_tokens, regex_gb9c)

\* number of symbol positions of the corpus representation
SymbolOccurrences(v) == SumOver(DOMAIN v, [w \in DOMAIN v |-> v[w] * Len(w)])

C5_LoopTerminatesWithinCap ==
    /\ [](Len(merges) <= max_merges /\ merge_count = Len(merges))
    /\ <>(train_pc = "done"
          /\ stop \in {"target", "nopairs", "minfreq", "cap"})

\* C5 witness: the loop stopped at the safety cap with merges done.
C5_Witness ==
    /\ train_pc = "done"
    /\ stop = "cap"
    /\ max_merges > 0
    /\ Len(merges) = max_merges

\* C6: the token2id of the returned model is injective, its ids are exactly
\* 0..N-1, every declared special token has as its id the number of distinct
\* special tokens declared before its first occurrence, and the
\* end-of-morpheme marker has an id.
C6_Token2IdDense ==
    train_pc = "done" =>
        LET t2i == model[1].token2id
            N == Cardinality(DOMAIN t2i)
        IN /\ \A t, u \in DOMAIN t2i : t # u => t2i[t] # t2i[u]
           /\ {t2i[t] : t \in DOMAIN t2i} = 0..(N - 1)
           /\ \A i \in 1..Len(special_tokens) :
                 /\ special_tokens[i] \in DOMAIN t2i
                 /\ (\A j \in 1..(i - 1) : special_tokens[j] # special_tokens[i])
                       => t2i[special_tokens[i]] =
                            Cardinality({special_tokens[j] : j \in 1..(i - 1)})
           /\ DEFAULT_EOS \in DOMAIN t2i

\* C6 witness: an empty corpus and a special-token list with a duplicate and
\* without the marker; the marker got the id after the two special tokens.
C6_Witness ==
    /\ train_pc = "done"
    /\ DOMAIN vocab = {}
    /\ special_tokens = <<DANDA_TOKEN, PAD_TOKEN, DANDA_TOKEN>>
    /\ model[1].token2id[DEFAULT_EOS] = 2

\* C7: the pair a merge step appends was, in the corpus state before the
\* step, an adjacent pair of some word form, of maximal frequency, the
\* smallest pair among those of maximal frequency, and of frequency at least
\* min_freq.
C7_MergedPairIsBest ==
    [][merges' # merges =>
         LET p == merges'[Len(merges')]
             pf == get_pair_frequencies(vocab)
         IN /\ merges' = Append(merges, p)
            /\ \E w \in DOMAIN vocab : \E i \in 1..(Len(w) - 1) :
                   w[i] = p[1] /\ w[i + 1] = p[2]
            /\ \A q \in DOMAIN pf : pf[q] <= pf[p]
            /\ \A q \in DOMAIN pf : (q # p /\ pf[q] = pf[p]) => PairLess(p, q)
            /\ pf[p] >= min_freq]_vars

\* C7 witness: the first merge was chosen among several pairs of maximal
\* frequency, with the default frequency floor.
C7_Witness ==
    /\ merge_count = 1
    /\ min_freq = DEFAULT_MIN_FREQ
    /\ LET pf == get_pair_frequencies(InitialVocab)
       IN Cardinality({p \in DOMAIN pf : pf[p] = BestFreq(pf)}) > 1


(***************************************************************************)
(* Segmentation properties                                                 *)
(***************************************************************************)
\* C3 (as stated): for every word the tokenizer's _initial_symbols is the
\* list of initial symbols the trainer builds for that word
C3_InitialSymbolsAgree ==
    seg_out # None => seg_out[1].tokenizer = seg_out[1].trainer

NonMarks(s) == {i \in 1..Len(s) : ~IsCategoryM(s[i])}

FinalSymbolsKnown(text) ==
    \A w \in Range(SplitWhitespace(text)) :
        \A sym \in Range(EncodeUncached(tok, w)) : sym \in DOMAIN tok.token2id

\* C1 (as stated): for a text of one or more words separated by single
\* spaces whose final symbols all have ids,
\* decode_ids(encode_to_ids(text, flatten=True), flatten=True) is the text
C1_RoundTrip ==
    (/\ call.op = "decode_ids"
     /\ call.flag
     /\ call.text # <<>>
     /\ FinalSymbolsKnown(call.text)) => ret = call.text

\* the symbols the trainer's final vocabulary holds for word
TrainerFinalForm(v, word) ==
    CHOOSE form \in DOMAIN v : Concat(form) = word \o DEFAULT_EOS

\* C2 (as stated): for a word of the training corpus, encode_word on the
\* tokenizer loaded from the trained model returns the symbols of the
\* trainer's final form of the word, without the end-of-morpheme marker
C2_EncoderReproducesTrainer ==
    (/\ call.op = "encode_word"
     /\ ~call.mutated
     /\ InList(call.text, WordsOfLines(lines)))
        => ret = DropEos(TrainerFinalForm(vocab, call.text), tok.eos_marker)

\* C10: whatever calls came before, and whatever the caller did to the lists
\* it got back, encode_word(w) (and so each word of encode) returns what a
\* tokenizer freshly loaded from the same file returns on its empty cache
C10_CacheNeverChangesResult ==
    (call.op \in {"encode_word", "encode"} /\ ~call.mutated) =>
        LET fresh == load(model_file[1])
            words == SplitWhitespace(call.text)
            expected == [i \in 1..Len(words) |-> EncodeUncached(fresh, words[i])]
        IN ret = IF call.op = "encode_word" THEN EncodeUncached(fresh, call.text)
                 ELSE IF call.flag THEN expected
                 ELSE Concat(expected)

\* encode_word was served from the cache, after the caller had emptied a
\* list an earlier call returned
C10_Witness ==
    /\ call.op = "encode_word"
    /\ call.hit
    /\ call.dirty
    /\ ~call.mutated
    /\ Len(ret) > 1


(***************************************************************************)
(* Properties of loading and decoding (SpecLoad)                           *)
(***************************************************************************)
\* the file holds the three fields and its token2id maps no two tokens to
\* one id
WellFormed(data) ==
    /\ {"merges", "token2id", "config"} \subseteq DOMAIN data
    /\ \A t, u \in DOMAIN data.token2id :
          t # u => data.token2id[t] # data.token2id[u]

\* C11 (as stated): load returns a tokenizer only for a file that exists and
\* is well formed; a missing file, a missing merges, token2id or config
\* field, or two tokens with one id make it fail
C11_LoadRejectsMalformed ==
    tok_pc = "loaded" => (model_file # None /\ WellFormed(model_file[1]))

\* the token decode_ids is to put for id i
TokenOfId(i) ==
    IF i \in DOMAIN tok.id2token THEN tok.id2token[i]
    ELSE IF UNK_TOKEN \in DOMAIN tok.token2id THEN UNK_TOKEN ELSE <<>>

\* C16 (as stated): in both modes decode_ids puts '<UNK>' for an id without a
\* token when '<UNK>' is in token2id, and the empty string when it is not
C16_UnknownIdsDecoded ==
    call.op = "decode_any" =>
        LET ids == call.text
        IN ret = IF call.flag
                 THEN JoinSpace(DecodeWords(tok,
                          [i \in 1..Len(ids) |-> TokenOfId(ids[i])],
                          1, <<>>, <<>>))
                 ELSE [w \in 1..Len(ids) |->
                          Concat(RemoveAll(
                              [i \in 1..Len(ids[w]) |-> TokenOfId(ids[w][i])],
                              tok.eos_marker))]


(***************************************************************************)
(* Properties of the merge steps (SpecTrainDefault)                        *)
(***************************************************************************)
RECURSIVE MergeAdjacent(_, _)
\* word with every position i where symbol i is pair[1] and symbol i+1 is
\* pair[2] joined, left to right, and nothing else changed
MergeAdjacent(pair, word) ==
    IF Len(word) < 2 THEN word
    ELSE IF word[1] = pair[1] /\ word[2] = pair[2]
    THEN <<pair[1] \o pair[2]>> \o MergeAdjacent(pair, SubSeq(word, 3, Len(word)))
    ELSE <<word[1]>> \o MergeAdjacent(pair, Tail(word))

\* C14 (as stated): a merge step for pair (a, b) joins only the positions
\* where symbol i is a and symbol i+1 is b, and leaves every other symbol,
\* also one that ends with the text of a or begins with the text of b
C14_MergeOnlyAdjacentPairs ==
    [][merges' # merges =>
         LET pair == merges'[Len(merges')]
         IN DOMAIN vocab' = {MergeAdjacent(pair, w) : w \in DOMAIN vocab}]_vars

\* C19: while and after the merge loop every word form spells its word and
\* the marker, the word forms are as many as the distinct words, each has
\* the number of occurrences of its word as its frequency, and the
\* frequencies sum up to the number of words of the corpus
C19_WordsPreserved ==
    train_pc \in {"loop", "done"} =>
        LET ws == WordsOfLines(lines)
        IN /\ {Concat(form) : form \in DOMAIN vocab}
                 = {ws[i] \o DEFAULT_EOS : i \in 1..Len(ws)}
           /\ Cardinality(DOMAIN vocab) = Cardinality(Range(ws))
           /\ \A form \in DOMAIN vocab :
                 vocab[form] = Cardinality({i \in 1..Len(ws) :
                                   ws[i] \o DEFAULT_EOS = Concat(form)})
           /\ SumOver(DOMAIN vocab, vocab) = Len(ws)

\* several merges were done on a corpus of distinct words, one of them twice
C19_Witness ==
    /\ train_pc = "done"
    /\ merge_count >= 2
    /\ Cardinality(DOMAIN vocab) >= 2
    /\ \E form \in DOMAIN vocab : vocab[form] >= 2 /\ Len(form) = 1

\* C20 (as stated): the merge list holds no pair twice, so the bpe_ranks a
\* tokenizer builds from it give every pair its position in the list
C20_MergesDistinct ==
    /\ \A i, j \in 1..Len(merges) : i # j => merges[i] # merges[j]
    /\ train_pc = "done" =>
          \A i \in 1..Len(merges) :
             load(model[1]).bpe_ranks[merges[i]] = i - 1


(***************************************************************************)
(* Properties of the preprocessor (SpecPre)                                *)
(***************************************************************************)
\* the candidates of a boundary that leave its right part as it is; the
\* vowel, gemination and cluster rules all change the right part
SameRight(b) == SelectSeq(b.cands, LAMBDA c : c[2] = b.right)

\* C12: at every boundary of a token where the left part ends with the
\* visarga there are exactly three visarga candidates, whatever the right
\* part begins with: the visarga removed, replaced by SA + virama, and
\* replaced by SHA + virama, each with the right part unchanged
C12_VisargaThreeCandidates ==
    pre_pc = "all_splits_for_token" =>
        \A i \in 1..Len(boundaries) :
           LET b == boundaries[i]
               stem == ButLast(b.left)
           IN b.left[Len(b.left)] = VISARGA =>
                 SameRight(b) = << <<stem, b.right>>,
                                   <<stem \o <<SA, VIRAMA>>, b.right>>,
                                   <<stem \o <<SHA, VIRAMA>>, b.right>> >>

\* a consonant with a visarga, followed by something that is no consonant
C12_Witness ==
    /\ pre_pc = "all_splits_for_token"
    /\ is_consonant(pre_in[1])
    /\ \E i \in 1..Len(boundaries) :
          /\ boundaries[i].left[Len(boundaries[i].left)] = VISARGA
          /\ ~ is_consonant(boundaries[i].right[1])

\* C13 (as stated): the list generate_split_candidates returns holds no pair
\* twice, and its pairs are in first-seen order
C13_NoDuplicateCandidates ==
    pre_pc = "generate_split_candidates" =>
        /\ \A i, j \in 1..Len(split_out) :
              i # j => split_out[i] # split_out[j]
        /\ split_out = Uniq(split_out, <<>>)

\* the nasal of the class of a code point, the dental one for any other
ClassNasal(cp) ==
    IF cp \in GUTTURALS THEN NGA
    ELSE IF cp \in PALATALS THEN NYA
    ELSE IF cp \in RETROFLEX THEN NNA
    ELSE IF cp \in LABIALS THEN MA
    ELSE NA

\* C18: at every boundary of a token where the left part ends with the
\* anusvara there is exactly one anusvara candidate: the anusvara replaced
\* by the nasal of the class of the first code point of the right part and
\* a virama, the dental nasal for a code point of no class; the right part
\* is unchanged
C18_AnusvaraOneCandidate ==
    pre_pc = "all_splits_for_token" =>
        \A i \in 1..Len(boundaries) :
           LET b == boundaries[i]
           IN b.left[Len(b.left)] = ANUSVARA =>
                 SameRight(b) =
                    << <<ButLast(b.left) \o <<ClassNasal(b.right[1]), VIRAMA>>,
                         b.right>> >>

\* a consonant with an anusvara, followed by a consonant of no class
C18_Witness ==
    /\ pre_pc = "all_splits_for_token"
    /\ is_consonant(pre_in[1])
    /\ \E i \in 1..Len(boundaries) :
          /\ boundaries[i].left[Len(boundaries[i].left)] = ANUSVARA
          /\ boundaries[i].right[1] = YA

\* C17 (as stated): where the vowel rule fires its candidate is the left
\* part with only the last code point replaced by the rule's first vowel,
\* and the rule's second vowel followed by the right part
C17_VowelRuleKeepsLeft ==
    pre_pc = "all_splits_for_token" =>
        \A i \in 1..Len(boundaries) :
           LET b == boundaries[i]
               last_cp == b.left[Len(b.left)]
           IN (/\ last_cp \in DOMAIN VOWEL_REVERSE_RULES
               /\ is_vowel_indep(grapheme_list(b.right)[1])) =>
                 /\ b.cands # <<>>
                 /\ b.cands[1] =
                       <<Append(ButLast(b.left), VOWEL_REVERSE_RULES[last_cp][1]),
                         <<VOWEL_REVERSE_RULES[last_cp][2]>> \o b.right>>

\* what stands at the place of morpheme k in the expected line
ChosenText(morpheme, choice) ==
    IF choice[2] # <<>> THEN choice[1] \o <<SPACE>> \o choice[2] ELSE morpheme

RECURSIVE PositionalFrom(_, _, _, _, _)
\* v from position i on, with the morpheme collected in cur and every later
\* one replaced at its own position; k counts the morphemes
PositionalFrom(v, i, cur, k, combo) ==
    LET done == IF cur = <<>> THEN <<>> ELSE ChosenText(cur, combo[k])
        k_next == IF cur = <<>> THEN k ELSE k + 1
    IN IF i > Len(v) THEN done
       ELSE LET hit == TokenAt(v, i, SPECIAL_TOKENS_SET)
            IN IF hit # None
               THEN done \o hit[1]
                      \o PositionalFrom(v, i + Len(hit[1]), <<>>, k_next, combo)
               ELSE IF IsSpace(v[i])
               THEN done \o <<v[i]>>
                      \o PositionalFrom(v, i + 1, <<>>, k_next, combo)
               ELSE PositionalFrom(v, i + 1, Append(cur, v[i]), k, combo)

\* C15 (as stated): for every verse segment and every combination of
\* candidates, the emitted line has 'left right' of the chosen candidate at
\* the position of each morpheme whose candidate has a right part, and the
\* morpheme itself elsewhere; no replacement touches another position
C15_ReplacementIsPositional ==
    pre_pc = "main" =>
        \A s \in 1..Len(expanded) :
           LET v == expanded[s].v
               combos == Product(SplitOptions(
                             get_morphemes_from_verse(v, SPECIAL_TOKENS_SET)))
           IN /\ Len(expanded[s].lines) = Len(combos)
              /\ \A c \in 1..Len(combos) :
                    expanded[s].lines[c]
                       = Strip(PositionalFrom(v, 1, <<>>, 1, combos[c]))

============================================================================
